---- MODULE Spec2Model ----
(***************************************************************************)
(* A model of src/stringbuilder.c: a growable byte buffer (StringBuilder)  *)
(* over a malloc/realloc/free heap.                                        *)
(*                                                                         *)
(* Memory is modelled explicitly.  The heap maps an address to a block     *)
(* (live or free, with its bytes); a StringBuilder struct holds the        *)
(* address of its block (value), length, size and error.  C index i of a   *)
(* block is element i+1 of its byte sequence.  Bytes that C leaves         *)
(* indeterminate (fresh malloc memory, the tail a growing realloc adds,    *)
(* the fields of a struct that was never initialised) are chosen           *)
(* nondeterministically.  A call that reads or writes outside its block,   *)
(* or uses freed memory, sets ub and the run stops there.                  *)
(***************************************************************************)
EXTENDS Integers, Sequences, FiniteSets, TLC

VARIABLES
    sb,      \* the StringBuilder structs, indexed by buffer
    heap,    \* the allocator's blocks, indexed by address
    phase,   \* per buffer: "raw" (never initialised), "ready", "failed", "finalized",
             \* "dangling" (ready, but its block was released)
    pieces,  \* the caller's output array of stringbuilder_split
    lastOp,  \* the call that just returned: its name, buffer, argument, the length
             \* of the buffer when it was called, the allocator's outcome, the result
    ub       \* the last call executed undefined behaviour

vars == <<sb, heap, phase, pieces, lastOp, ub>>

\* ------------------------------------------------------------------ bounds

\* The largest block the allocator grants; a larger request is refused.
MaxSize == 4

\* The largest repeat count the model tries.
MaxTimes == 3

\* The longest byte string a caller appends in one call.
MaxAppend == 2

\* The longest content of the buffer that stringbuilder_copy duplicates.
MaxSrcLen == 2

\* The longest content searched or split, the longest needle or separator,
\* and the largest max_pieces.
MaxHay == 3

MaxNeedle == 2

MaxPieces == 3

\* ------------------------------------------------------------- constants

NULL == 0

ERROR_NONE == "STRING_BUILDER_ERROR_NONE"

ERROR_MEM_ALLOC_FAILURE == "STRING_BUILDER_ERROR_MEM_ALLOC_FAILURE"

ERROR_OUT_OF_RANGE == "STRING_BUILDER_ERROR_OUT_OF_RANGE"

\* internal_string_pos returns a pointer; the model returns its offset from
\* the start of the block, and this for NULL.
NotFound == -1

\* stringbuilder.h is not part of the sources; the default size is scaled
\* to the model's arena.
STRING_BUILDER_DEFAULT_INITIAL_SIZE == 2

\* The bytes the callers pass in: ' ' and 'a'.
Chars == {32, 97}

\* The values an indeterminate byte may turn out to hold.
Garbage == {0, 97}

\* ----------------------------------------------------------- C library

toupper(c) == IF c \in 97..122 THEN c - 32 ELSE c

tolower(c) == IF c \in 65..90 THEN c + 32 ELSE c

isspace(c) == c = 32 \/ c \in 9..13

\* memcpy / memmove / memset into a block: bytes written at C offset `at`.
\* A store outside the block is not kept (OutOfBlock reports it).
MemWrite(mem, at, bytes) ==
    [i \in 1..Len(mem) |->
        IF i - 1 - at \in 0..(Len(bytes) - 1) THEN bytes[i - at] ELSE mem[i]]

\* The n bytes of a block from C offset `at`.
MemRead(mem, at, n) == [i \in 1..n |-> mem[at + i]]

OutOfBlock(mem, at, n) == n > 0 /\ (at < 0 \/ at + n > Len(mem))

Zeros(n) == [i \in 1..n |-> 0]

\* ------------------------------------------------------------ allocator

FreeBlock == [live |-> FALSE, mem |-> <<>>]

FreeAddrs(h) == {a \in DOMAIN h : ~h[a].live}

LowestFree(h) == CHOOSE a \in FreeAddrs(h) : \A c \in FreeAddrs(h) : a <= c

NoOutcome == [kind |-> "none", addr |-> NULL, fill |-> <<>>]

Refusal == [kind |-> "null", addr |-> NULL, fill |-> <<>>]

\* What mem_alloc(n) may do: refuse (always possible, and the only outcome
\* beyond the arena), or hand out a free block of n indeterminate bytes.
AllocOutcomes(h, n) ==
    {Refusal} \cup
    (IF n \in 1..MaxSize /\ FreeAddrs(h) # {}
        THEN {[kind |-> "new", addr |-> LowestFree(h), fill |-> f] :
                  f \in [1..n -> Garbage]}
        ELSE {})

\* What mem_realloc(p, n) may do.  A negative int32 converts to a huge
\* size_t and is refused.  For n = 0 the C library may return NULL having
\* released the block ("freed"), return NULL keeping it, or return a
\* zero-sized block ("zero").  Otherwise it refuses, resizes in place, or
\* moves the bytes to another block and releases the old one.
ReallocOutcomes(h, p, n) ==
    {Refusal} \cup
    (IF n = 0
        THEN {[kind |-> "freed", addr |-> NULL, fill |-> <<>>],
              [kind |-> "zero", addr |-> p, fill |-> <<>>]}
        ELSE {}) \cup
    (IF n \in 1..MaxSize
        THEN LET old == Len(h[p].mem)
                 grow == IF n > old THEN n - old ELSE 0
             IN  {[kind |-> k, addr |-> IF k = "inplace" THEN p ELSE LowestFree(h),
                   fill |-> f] :
                      k \in {"inplace"} \cup (IF FreeAddrs(h) # {} THEN {"moved"} ELSE {}),
                      f \in [1..grow -> Garbage]}
        ELSE {})

\* The block's bytes after a realloc to n bytes: the common prefix kept,
\* the added tail indeterminate.
Resized(mem, n, fill) ==
    [i \in 1..n |-> IF i <= Len(mem) THEN mem[i] ELSE fill[i - Len(mem)]]

AllocKind(out) ==
    CASE out.kind = "none" -> "none"
      [] out.kind = "null" -> "refused"
      [] out.kind = "freed" -> "freed"
      [] OTHER -> "ok"

\* The used bytes of a buffer: what memcpy / memcmp read from value.
Content(s, h) == SubSeq(h[s.value].mem, 1, s.length)

\* ------------------------------------------------------------ lifecycle

\* stringbuilder_init_size: the struct and heap after the call.
init_size(s, h, size, out) ==
    LET s1 == [s EXCEPT !.error = ERROR_MEM_ALLOC_FAILURE]
    IN  IF size > 0
        THEN IF out.kind = "new"
             THEN [sb |-> [value |-> out.addr, length |-> 0, size |-> size,
                           error |-> ERROR_NONE],
                   heap |-> [h EXCEPT ![out.addr] = [live |-> TRUE, mem |-> out.fill]]]
             ELSE [sb |-> [s1 EXCEPT !.value = NULL], heap |-> h]
        ELSE [sb |-> s1, heap |-> h]

\* stringbuilder_finalize
finalize(s, h, owned) ==
    [sb |-> [value |-> NULL, length |-> 0, size |-> 0, error |-> ERROR_NONE],
     heap |-> IF s.value # NULL /\ owned THEN [h EXCEPT ![s.value] = FreeBlock] ELSE h,
     ub |-> s.value # NULL /\ ~owned]

\* --------------------------------------------------------------- resize

\* set_size with the size stored before the result of realloc is looked at.
set_size_early(s, h, newSize, out) ==
    LET s1 == [s EXCEPT !.error = ERROR_MEM_ALLOC_FAILURE, !.size = newSize]
    IN  IF out.kind = "null"
        THEN [sb |-> s1, heap |-> h, ub |-> FALSE, alloc |-> "refused"]
        ELSE IF out.kind = "freed"
        THEN [sb |-> s1, heap |-> [h EXCEPT ![s.value] = FreeBlock], ub |-> FALSE,
              alloc |-> "freed"]
        ELSE
            LET mem0 == Resized(h[s.value].mem, newSize, out.fill)
                h1 == [[h EXCEPT ![s.value] = FreeBlock] EXCEPT
                          ![out.addr] = [live |-> TRUE, mem |-> mem0]]
                clamp == s.length >= newSize
                len1 == IF clamp THEN newSize - 1 ELSE s.length
                mem1 == IF clamp THEN MemWrite(mem0, len1, <<0>>) ELSE mem0
            IN  [sb |-> [value |-> out.addr, length |-> len1, size |-> newSize,
                         error |-> ERROR_NONE],
                 heap |-> [h1 EXCEPT ![out.addr].mem = mem1],
                 ub |-> clamp /\ OutOfBlock(mem0, len1, 1),
                 alloc |-> "ok"]

\* set_size that truncates only when length > size.
set_size_strict(s, h, newSize, out) ==
    LET s1 == [s EXCEPT !.error = ERROR_MEM_ALLOC_FAILURE]
    IN  IF out.kind = "null"
        THEN [sb |-> s1, heap |-> h, ub |-> FALSE, alloc |-> "refused"]
        ELSE IF out.kind = "freed"
        THEN [sb |-> s1, heap |-> [h EXCEPT ![s.value] = FreeBlock], ub |-> FALSE,
              alloc |-> "freed"]
        ELSE
            LET mem0 == Resized(h[s.value].mem, newSize, out.fill)
                h1 == [[h EXCEPT ![s.value] = FreeBlock] EXCEPT
                          ![out.addr] = [live |-> TRUE, mem |-> mem0]]
                clamp == s.length > newSize
                len1 == IF clamp THEN newSize - 1 ELSE s.length
                mem1 == IF clamp THEN MemWrite(mem0, len1, <<0>>) ELSE mem0
            IN  [sb |-> [value |-> out.addr, length |-> len1, size |-> newSize,
                         error |-> ERROR_NONE],
                 heap |-> [h1 EXCEPT ![out.addr].mem = mem1],
                 ub |-> clamp /\ OutOfBlock(mem0, len1, 1),
                 alloc |-> "ok"]

\* stringbuilder_set_size
set_size(s, h, newSize, out) ==
    LET s1 == [s EXCEPT !.error = ERROR_MEM_ALLOC_FAILURE]
    IN  IF out.kind = "null"
        THEN [sb |-> s1, heap |-> h, ub |-> FALSE, alloc |-> "refused"]
        ELSE IF out.kind = "freed"
        THEN [sb |-> s1, heap |-> [h EXCEPT ![s.value] = FreeBlock], ub |-> FALSE,
              alloc |-> "freed"]
        ELSE
            LET mem0 == Resized(h[s.value].mem, newSize, out.fill)
                h1 == [[h EXCEPT ![s.value] = FreeBlock] EXCEPT
                          ![out.addr] = [live |-> TRUE, mem |-> mem0]]
                clamp == s.length >= newSize
                len1 == IF clamp THEN newSize - 1 ELSE s.length
                mem1 == IF clamp THEN MemWrite(mem0, len1, <<0>>) ELSE mem0
            IN  [sb |-> [value |-> out.addr, length |-> len1, size |-> newSize,
                         error |-> ERROR_NONE],
                 heap |-> [h1 EXCEPT ![out.addr].mem = mem1],
                 ub |-> clamp /\ OutOfBlock(mem0, len1, 1),
                 alloc |-> "ok"]

\* ENSURE_MEMORY_SIZE: whether the macro calls stringbuilder_set_size, and
\* with which size.
NeedsGrowth(s, requiredSize) == requiredSize + 1 > s.size

GrowSize(s, requiredSize) ==
    IF requiredSize + 1 > s.size * 2 THEN requiredSize + 1 ELSE s.size * 2

\* ENSURE_MEMORY_SIZE: returned says the macro made the caller return.
ENSURE_MEMORY_SIZE(s, h, requiredSize, out) ==
    IF NeedsGrowth(s, requiredSize)
    THEN LET r == set_size(s, h, GrowSize(s, requiredSize), out)
         IN  [sb |-> r.sb, heap |-> r.heap, ub |-> r.ub, alloc |-> r.alloc,
              returned |-> r.sb.error # ERROR_NONE]
    ELSE [sb |-> s, heap |-> h, ub |-> FALSE, alloc |-> "none", returned |-> FALSE]

\* The outcomes the realloc inside ENSURE_MEMORY_SIZE may have.
EnsureOutcomes(s, h, requiredSize) ==
    IF NeedsGrowth(s, requiredSize)
    THEN ReallocOutcomes(h, s.value, GrowSize(s, requiredSize))
    ELSE {NoOutcome}

\* The tail of a mutator: after the macro, write `bytes` at offset `at`,
\* set the length and the terminator, return sb->error.
Finish(e, at, bytes, newLen) ==
    IF e.returned
    THEN [sb |-> e.sb, heap |-> e.heap, ub |-> e.ub, alloc |-> e.alloc]
    ELSE LET p == e.sb.value
             mem0 == e.heap[p].mem
             mem1 == MemWrite(MemWrite(mem0, at, bytes), newLen, <<0>>)
         IN  [sb |-> [e.sb EXCEPT !.length = newLen],
              heap |-> [e.heap EXCEPT ![p].mem = mem1],
              ub |-> e.ub \/ OutOfBlock(mem0, at, Len(bytes))
                          \/ OutOfBlock(mem0, newLen, 1),
              alloc |-> e.alloc]

\* stringbuilder_set_length
set_length(s, h, length, out) ==
    LET e == ENSURE_MEMORY_SIZE(s, h, length, out)
        n == IF length > s.length THEN length - s.length ELSE 0
    IN  Finish(e, s.length, Zeros(n), length)

\* ------------------------------------------------------------- appends

\* stringbuilder_append_char
append_char(s, h, c, out) ==
    LET e == ENSURE_MEMORY_SIZE(s, h, s.length + 1, out)
    IN  Finish(e, s.length, <<c>>, s.length + 1)

\* stringbuilder_append_string: `string` is the len bytes the memcpy reads.
append_string(s, h, string, out) ==
    LET newLen == s.length + Len(string)
        e == ENSURE_MEMORY_SIZE(s, h, newLen, out)
    IN  Finish(e, s.length, string, newLen)

\* stringbuilder_concat reads other->value, other->length when the memcpy
\* runs; `string` is what that read yields.
concat(s, h, string, out) == append_string(s, h, string, out)

\* -------------------------------------------------------- transformations

\* The function internal_case_convert is handed: "toupper" or "tolower".
Convert(convert, c) == IF convert = "toupper" THEN toupper(c) ELSE tolower(c)

\* internal_case_convert
internal_case_convert(s, h, convert) ==
    IF s.length > 0
    THEN LET mem == h[s.value].mem
         IN  [sb |-> s,
              heap |-> [h EXCEPT ![s.value].mem =
                           [i \in 1..Len(mem) |->
                               IF i <= s.length THEN Convert(convert, mem[i])
                                                ELSE mem[i]]],
              ub |-> FALSE, alloc |-> "none"]
    ELSE [sb |-> s, heap |-> h, ub |-> FALSE, alloc |-> "none"]

\* stringbuilder_to_uppercase
to_uppercase(s, h) == internal_case_convert(s, h, "toupper")

\* stringbuilder_to_lowercase
to_lowercase(s, h) == internal_case_convert(s, h, "tolower")

\* stringbuilder_replace_char: n is the count the call returns.
replace_char(s, h, search, replace) ==
    IF s.length > 0
    THEN LET mem == h[s.value].mem
             hits == {i \in 1..s.length : mem[i] = search}
         IN  [sb |-> s,
              heap |-> [h EXCEPT ![s.value].mem =
                           [i \in 1..Len(mem) |-> IF i \in hits THEN replace ELSE mem[i]]],
              ub |-> FALSE, alloc |-> "none", n |-> Cardinality(hits)]
    ELSE [sb |-> s, heap |-> h, ub |-> FALSE, alloc |-> "none", n |-> 0]

\* The copy loop stopping one memmove early.
RECURSIVE RepeatLoopShort(_, _, _, _)
RepeatLoopShort(mem, dst, length, left) ==
    IF left > 1
    THEN RepeatLoopShort(MemWrite(mem, dst, MemRead(mem, 0, length)), dst + length,
                         length, left - 1)
    ELSE mem

\* The copy loop of stringbuilder_repeat: `left` more memmoves of the first
\* `length` bytes of the block, the next one to offset dst.
RECURSIVE RepeatLoop(_, _, _, _)
RepeatLoop(mem, dst, length, left) ==
    IF left > 0
    THEN RepeatLoop(MemWrite(mem, dst, MemRead(mem, 0, length)), dst + length,
                    length, left - 1)
    ELSE mem

\* stringbuilder_repeat
repeat(s, h, times, out) ==
    IF times < 0
    THEN [sb |-> [s EXCEPT !.error = ERROR_OUT_OF_RANGE], heap |-> h, ub |-> FALSE,
          alloc |-> "none"]
    ELSE LET s1 == [s EXCEPT !.error = ERROR_NONE]
         IN  IF s.length > 0
             THEN IF times = 0
                  THEN [sb |-> [s1 EXCEPT !.length = 0],
                        heap |-> [h EXCEPT ![s.value].mem = MemWrite(@, 0, <<0>>)],
                        ub |-> FALSE, alloc |-> "none"]
                  ELSE LET newLen == s.length + (s.length * (times - 1))
                           e == ENSURE_MEMORY_SIZE(s1, h, newLen, out)
                       IN  IF e.returned
                           THEN [sb |-> e.sb, heap |-> e.heap, ub |-> e.ub,
                                 alloc |-> e.alloc]
                           ELSE LET p == e.sb.value
                                    mem1 == RepeatLoop(e.heap[p].mem, s.length,
                                                       s.length, times - 1)
                                IN  [sb |-> [e.sb EXCEPT !.length = newLen],
                                     heap |-> [e.heap EXCEPT ![p].mem =
                                                  MemWrite(mem1, newLen, <<0>>)],
                                     ub |-> e.ub, alloc |-> e.alloc]
             ELSE [sb |-> s1, heap |-> h, ub |-> FALSE, alloc |-> "none"]

\* The length the growth check of stringbuilder_repeat asks for.
RepeatRequired(s, times) ==
    IF times > 0 /\ s.length > 0 THEN s.length + (s.length * (times - 1)) ELSE 0

\* stringbuilder_trim
trim(s, h) ==
    IF s.length > 0
    THEN LET mem == h[s.value].mem
             e0 == s.length
             \* the first loop: c stops at the first byte that is no space
             kept == {i \in 0..(e0 - 1) : ~isspace(mem[i + 1])}
         IN  IF kept = {}
             THEN [sb |-> [s EXCEPT !.length = 0],
                   heap |-> [h EXCEPT ![s.value].mem = MemWrite(mem, 0, <<0>>)],
                   ub |-> FALSE, alloc |-> "none"]
             ELSE LET c == CHOOSE i \in kept : \A j \in kept : i <= j
                      \* the second loop: e stops at the last byte that is no space
                      e == CHOOSE i \in kept : \A j \in kept : j <= i
                      newLen == (e - c) + 1
                      moved == IF c > 0
                               THEN MemWrite(mem, 0, MemRead(mem, c, newLen))
                               ELSE mem
                  IN  [sb |-> [s EXCEPT !.length = newLen],
                       heap |-> [h EXCEPT ![s.value].mem =
                                    MemWrite(moved, newLen, <<0>>)],
                       ub |-> FALSE, alloc |-> "none"]
    ELSE [sb |-> s, heap |-> h, ub |-> FALSE, alloc |-> "none"]

\* ------------------------------------------------------------- copying

\* A copy that shares the source's block instead of duplicating it.
copy_shallow(src, dest, h, out) ==
    IF out.kind = "new"
    THEN [src |-> [src EXCEPT !.error = ERROR_NONE],
          dest |-> [value |-> src.value, length |-> src.length,
                    size |-> src.size, error |-> ERROR_NONE],
          heap |-> h]
    ELSE [src |-> [src EXCEPT !.error = ERROR_MEM_ALLOC_FAILURE],
          dest |-> [dest EXCEPT !.error = ERROR_MEM_ALLOC_FAILURE, !.value = NULL],
          heap |-> h]

\* stringbuilder_copy: both structs and the heap after the call.
copy(src, dest, h, out) ==
    LET r == init_size(dest, h, src.length + 1, out)
        err == r.sb.error
    IN  IF err = ERROR_NONE
        THEN LET p == r.sb.value
                 mem1 == MemWrite(MemWrite(r.heap[p].mem, 0, Content(src, h)),
                                  src.length, <<0>>)
             IN  [src |-> [src EXCEPT !.error = err],
                  dest |-> [r.sb EXCEPT !.length = src.length],
                  heap |-> [r.heap EXCEPT ![p].mem = mem1]]
        ELSE [src |-> [src EXCEPT !.error = err], dest |-> r.sb, heap |-> r.heap]

\* stringbuilder_equals, for two distinct structs a and b (a == b is TRUE).
equals(a, b, h) ==
    a.length = b.length /\ Content(a, h) = Content(b, h)

\* ------------------------------------------------------------- searching

\* In the search functions `image` is the memory the pointers range over:
\* the bytes of the block, offset 0 its first.

\* memchr(image + from, c, n): the offset of the first c, or NotFound.
memchr(image, from, c, n) ==
    LET hits == {i \in from..(from + n - 1) : image[i + 1] = c}
    IN  IF hits = {} THEN NotFound
        ELSE CHOOSE i \in hits : \A j \in hits : i <= j

\* memcmp(image + at, bytes, Len(bytes)) == 0
memcmp_eq(image, at, bytes) ==
    \A k \in 1..Len(bytes) : image[at + k] = bytes[k]

\* The do-while loop of internal_string_pos, from curr.
RECURSIVE PosLoop(_, _, _, _)
PosLoop(image, curr, end, needle) ==
    LET found == memchr(image, curr, needle[1], end - curr)
    IN  IF found = NotFound THEN NotFound
        ELSE IF memcmp_eq(image, found + 1, Tail(needle)) THEN found
        ELSE LET next == found + Len(needle)
             IN  IF next + Len(needle) < end
                 THEN PosLoop(image, next, end, needle)
                 ELSE NotFound

\* internal_string_pos(image + str, str_len, needle, Len(needle))
internal_string_pos(image, str, str_len, needle) ==
    IF Len(needle) = 0 THEN str
    ELSE IF str_len > 0
    THEN IF Len(needle) = 1 THEN memchr(image, str, needle[1], str_len)
         ELSE IF Len(needle) > 1 /\ Len(needle) <= str_len
         THEN PosLoop(image, str, str + str_len, needle)
         ELSE NotFound
    ELSE NotFound

\* stringbuilder_index_of: value is offset 0 of the image.
index_of(s, image, needle) ==
    LET pos == internal_string_pos(image, 0, s.length, needle)
    IN  IF pos = NotFound THEN -1 ELSE pos

\* stringbuilder_contains
contains(s, image, needle) ==
    internal_string_pos(image, 0, s.length, needle) # NotFound

\* -------------------------------------------------------------- splitting

\* One output buffer of stringbuilder_split: stringbuilder_init_size(p, len + 1)
\* then stringbuilder_append_string(p, start, len), the allocation granted.
Piece(p, h, string) ==
    LET grant == [kind |-> "new", addr |-> LowestFree(h),
                  fill |-> Zeros(Len(string) + 1)]
        r == init_size(p, h, Len(string) + 1, grant)
    IN  append_string(r.sb, r.heap, string, NoOutcome)

\* The while loop of stringbuilder_split and the tail after it.  acc holds
\* the pieces written so far (n of them), h the heap.
RECURSIVE SplitLoop(_, _, _, _, _, _, _, _, _)
SplitLoop(image, start, current, end, n, max_pieces, separator, h, acc) ==
    IF current # NotFound /\ n + 1 < max_pieces
    THEN LET len == current - start
             r == Piece(acc[n + 1], h, MemRead(image, start, len))
             remaining == end - current
             start1 == current + Len(separator)
             current1 == internal_string_pos(image, start1, remaining, separator)
         IN  SplitLoop(image, start1, current1, end, n + 1, max_pieces, separator,
                       r.heap, [acc EXCEPT ![n + 1] = r.sb])
    ELSE IF start <= end /\ n < max_pieces
    THEN LET r == Piece(acc[n + 1], h, MemRead(image, start, end - start))
         IN  [n |-> n + 1, heap |-> r.heap, pieces |-> [acc EXCEPT ![n + 1] = r.sb]]
    ELSE [n |-> n, heap |-> h, pieces |-> acc]

\* stringbuilder_split: the count returned, the output array and the heap.
split(s, image, h, out, max_pieces, separator) ==
    IF s.length > 0 /\ max_pieces > 0
    THEN SplitLoop(image, 0, internal_string_pos(image, 0, s.length, separator),
                   s.length, 0, max_pieces, separator, h, out)
    ELSE [n |-> 0, heap |-> h, pieces |-> out]

\* ----------------------------------------------------------- the system

Bufs == DOMAIN sb

\* The caller may use a buffer between a successful init and finalize.
Usable(b) == phase[b] = "ready"

\* realloc(p, 0) released the block and the struct still points to it.
Dangling(b) == phase[b] = "dangling"

\* The caller takes the buffer for a live one.
Ready(b) == Usable(b) \/ Dangling(b)

\* What an uninitialised struct may hold: zeroes (static storage) or junk.
RawStructs ==
    {[value |-> NULL, length |-> 0, size |-> 0, error |-> ERROR_NONE],
     [value |-> NULL, length |-> 1, size |-> 1, error |-> ERROR_OUT_OF_RANGE]}

NoOp ==
    [op |-> "none", buf |-> 0, arg |-> 0, len0 |-> 0, alloc |-> "none",
     ret |-> ERROR_NONE]

Init ==
    /\ sb \in [{1} -> RawStructs]
    /\ heap = [a \in {1, 2} |-> FreeBlock]
    /\ phase = [b \in {1} |-> "raw"]
    /\ pieces = <<>>
    /\ lastOp = NoOp
    /\ ub = FALSE

\* A mutator's step on buffer b: r is the operator's result.
Step(b, name, arg, r) ==
    /\ sb' = [sb EXCEPT ![b] = r.sb]
    /\ heap' = r.heap
    /\ ub' = r.ub
    /\ lastOp' = [op |-> name, buf |-> b, arg |-> arg, len0 |-> sb[b].length,
                  alloc |-> r.alloc, ret |-> r.sb.error]
    /\ phase' = [phase EXCEPT ![b] = IF r.alloc = "freed" THEN "dangling" ELSE @]
    /\ UNCHANGED pieces

InitSize(b) ==
    /\ ~ub /\ ~Ready(b)
    /\ \E size \in 0..MaxSize :
       \E out \in AllocOutcomes(heap, size) :
          LET r == init_size(sb[b], heap, size, out)
          IN  /\ sb' = [sb EXCEPT ![b] = r.sb]
              /\ heap' = r.heap
              /\ phase' = [phase EXCEPT ![b] =
                              IF r.sb.error = ERROR_NONE THEN "ready" ELSE "failed"]
              /\ lastOp' = [op |-> "init_size", buf |-> b, arg |-> size,
                            len0 |-> sb[b].length,
                            alloc |-> IF size > 0 THEN AllocKind(out) ELSE "none",
                            ret |-> r.sb.error]
              /\ UNCHANGED <<pieces, ub>>

Finalize(b) ==
    /\ ~ub
    /\ LET r == finalize(sb[b], heap, Usable(b))
       IN  /\ sb' = [sb EXCEPT ![b] = r.sb]
           /\ heap' = r.heap
           /\ ub' = r.ub
           /\ phase' = [phase EXCEPT ![b] = "finalized"]
           /\ lastOp' = [op |-> "finalize", buf |-> b, arg |-> 0,
                         len0 |-> sb[b].length, alloc |-> "none", ret |-> ERROR_NONE]
           /\ UNCHANGED pieces

SetSize(b) ==
    /\ ~ub /\ Usable(b)
    /\ \E newSize \in -1..(MaxSize + 1) :
       \E out \in ReallocOutcomes(heap, sb[b].value, newSize) :
          Step(b, "set_size", newSize, set_size(sb[b], heap, newSize, out))

SetLength(b) ==
    /\ ~ub /\ Usable(b)
    /\ \E length \in -1..MaxSize :
       \E out \in EnsureOutcomes(sb[b], heap, length) :
          Step(b, "set_length", length, set_length(sb[b], heap, length, out))

AppendChar(b) ==
    /\ ~ub /\ Usable(b)
    /\ \E c \in Chars :
       \E out \in EnsureOutcomes(sb[b], heap, sb[b].length + 1) :
          Step(b, "append_char", c, append_char(sb[b], heap, c, out))

\* stringbuilder_append_string with the caller's own bytes.
AppendString(b) ==
    /\ ~ub /\ Usable(b)
    /\ \E string \in UNION {[1..k -> Chars] : k \in 0..MaxAppend} :
       \E out \in EnsureOutcomes(sb[b], heap, sb[b].length + Len(string)) :
          Step(b, "append_string", string, append_string(sb[b], heap, string, out))

\* stringbuilder_concat(sb, other).  With other == sb, a realloc that moved
\* the block leaves `string` pointing into freed memory.
Concat(b) ==
    /\ ~ub /\ Usable(b)
    /\ \E o \in Bufs :
          /\ Usable(o)
          /\ \E out \in EnsureOutcomes(sb[b], heap, sb[b].length + sb[o].length) :
                LET stale == o = b /\ out.kind = "moved"
                    seen == Content(sb[o], heap)
                IN  \E string \in (IF stale THEN [1..Len(seen) -> Garbage] \cup {seen}
                                            ELSE {seen}) :
                       LET r == concat(sb[b], heap, string, out)
                       IN  Step(b, "concat", o, [r EXCEPT !.ub = r.ub \/ stale])

Repeat(b) ==
    /\ ~ub /\ Usable(b)
    /\ \E times \in -1..MaxTimes :
       \E out \in EnsureOutcomes(sb[b], heap, RepeatRequired(sb[b], times)) :
          Step(b, "repeat", times, repeat(sb[b], heap, times, out))

Trim(b) ==
    /\ ~ub /\ Usable(b)
    /\ Step(b, "trim", 0, trim(sb[b], heap))

ToUppercase(b) ==
    /\ ~ub /\ Usable(b)
    /\ Step(b, "to_uppercase", 0, to_uppercase(sb[b], heap))

ToLowercase(b) ==
    /\ ~ub /\ Usable(b)
    /\ Step(b, "to_lowercase", 0, to_lowercase(sb[b], heap))

ReplaceChar(b) ==
    /\ ~ub /\ Usable(b)
    /\ \E search \in Chars, replace \in Chars :
          LET r == replace_char(sb[b], heap, search, replace)
          IN  /\ Step(b, "replace_char", <<search, replace>>, r)

\* stringbuilder_copy(src, dest) into a struct that holds no buffer.
Copy(b) ==
    /\ ~ub /\ Usable(b)
    /\ \E d \in Bufs \ {b} :
          /\ ~Ready(d)
          /\ \E out \in AllocOutcomes(heap, sb[b].length + 1) :
                LET r == copy(sb[b], sb[d], heap, out)
                IN  /\ sb' = [sb EXCEPT ![b] = r.src, ![d] = r.dest]
                    /\ heap' = r.heap
                    /\ phase' = [phase EXCEPT ![d] =
                                    IF r.src.error = ERROR_NONE THEN "ready"
                                                                ELSE "failed"]
                    /\ lastOp' = [op |-> "copy", buf |-> d, arg |-> b,
                                  len0 |-> sb[d].length, alloc |-> AllocKind(out),
                                  ret |-> r.src.error]
                    /\ UNCHANGED <<pieces, ub>>

\* Any call on a buffer whose block realloc(p, 0) released.
UseAfterFree(b) ==
    /\ ~ub /\ Dangling(b)
    /\ ub' = TRUE
    /\ lastOp' = [op |-> "use_after_free", buf |-> b, arg |-> 0,
                  len0 |-> sb[b].length, alloc |-> "none", ret |-> sb[b].error]
    /\ UNCHANGED <<sb, heap, phase, pieces>>

\* The calls that work on one buffer.
Mutate(b) ==
    \/ SetLength(b)
    \/ SetSize(b)
    \/ AppendChar(b)
    \/ AppendString(b)
    \/ Concat(b)
    \/ Repeat(b)
    \/ Trim(b)
    \/ ToUppercase(b)
    \/ ToLowercase(b)
    \/ ReplaceChar(b)
    \/ UseAfterFree(b)

\* stringbuilder_init: init_size with the default size.
InitDefault(b) ==
    /\ ~ub /\ ~Ready(b)
    /\ \E out \in AllocOutcomes(heap, STRING_BUILDER_DEFAULT_INITIAL_SIZE) :
          LET r == init_size(sb[b], heap, STRING_BUILDER_DEFAULT_INITIAL_SIZE, out)
          IN  /\ sb' = [sb EXCEPT ![b] = r.sb]
              /\ heap' = r.heap
              /\ phase' = [phase EXCEPT ![b] =
                              IF r.sb.error = ERROR_NONE THEN "ready" ELSE "failed"]
              /\ lastOp' = [op |-> "init", buf |-> b,
                            arg |-> STRING_BUILDER_DEFAULT_INITIAL_SIZE,
                            len0 |-> sb[b].length,
                            alloc |-> AllocKind(out), ret |-> r.sb.error]
              /\ UNCHANGED <<pieces, ub>>

\* One buffer, used through its whole life.
Next ==
    \/ InitDefault(1)
    \/ InitSize(1)
    \/ Finalize(1)
    \/ Mutate(1)

Spec == Init /\ [][Next]_vars

\* ---------------------------------------------------- copying a buffer

\* A buffer built by init_size(len + 1) and append_string(content).
Built(addr, content) ==
    [value |-> addr, length |-> Len(content), size |-> Len(content) + 1,
     error |-> ERROR_NONE]

\* Buffer 1 holds some content, buffer 2 is a struct never initialised.
InitCopy ==
    /\ \E content \in UNION {[1..k -> Chars] : k \in 0..MaxSrcLen} :
          /\ sb = <<Built(1, content),
                    [value |-> NULL, length |-> 0, size |-> 0, error |-> ERROR_NONE]>>
          /\ heap = [a \in {1, 2, 3} |->
                        IF a = 1 THEN [live |-> TRUE, mem |-> content \o <<0>>]
                                 ELSE FreeBlock]
    /\ phase = <<"ready", "raw">>
    /\ pieces = <<>>
    /\ lastOp = NoOp
    /\ ub = FALSE

\* Buffer 1 is copied into buffer 2, and buffer 2 is then worked on.
NextCopy ==
    \/ Copy(1)
    \/ Finalize(2)
    \/ AppendChar(2)
    \/ AppendString(2)
    \/ Concat(2)
    \/ SetLength(2)
    \/ Repeat(2)
    \/ Trim(2)
    \/ ReplaceChar(2)

SpecCopy == InitCopy /\ [][NextCopy]_vars

\* ------------------------------------------------- searching and splitting

\* The bytes searched for, and the bytes of the searched content.
Letters == {97, 98}

Needles == UNION {[1..k -> Letters] : k \in 0..MaxNeedle}

\* The bytes behind the terminator that a search may reach: what a longer,
\* earlier content left in the block.
Stale == [1..(2 * MaxNeedle - 2) -> Letters \cup {0}]

\* Buffer 1 holds some content, with stale bytes behind its terminator.
InitSearch ==
    /\ \E content \in UNION {[1..k -> Letters] : k \in 0..MaxHay} :
       \E stale \in Stale :
          /\ sb = <<[value |-> 1, length |-> Len(content),
                     size |-> Len(content) + 1 + Len(stale), error |-> ERROR_NONE]>>
          /\ heap = [a \in 1..(MaxPieces + 1) |->
                        IF a = 1
                        THEN [live |-> TRUE, mem |-> content \o <<0>> \o stale]
                        ELSE FreeBlock]
    /\ phase = <<"ready">>
    /\ pieces = <<>>
    /\ lastOp = NoOp
    /\ ub = FALSE

\* The memory the search functions' pointers range over.
Image(b) == heap[sb[b].value].mem

IndexOf(b) ==
    \E needle \in Needles :
       /\ lastOp' = [op |-> "index_of", buf |-> b, arg |-> needle,
                     len0 |-> sb[b].length, alloc |-> "none",
                     ret |-> index_of(sb[b], Image(b), needle)]
       /\ UNCHANGED <<sb, heap, phase, pieces, ub>>

ContainsOp(b) ==
    \E needle \in Needles :
       /\ lastOp' = [op |-> "contains", buf |-> b, arg |-> needle,
                     len0 |-> sb[b].length, alloc |-> "none",
                     ret |-> contains(sb[b], Image(b), needle)]
       /\ UNCHANGED <<sb, heap, phase, pieces, ub>>

\* stringbuilder_split into a fresh, zeroed output array; the blocks of an
\* earlier split's pieces are released first.
Split(b) ==
    \E separator \in Needles, max_pieces \in 0..MaxPieces :
       LET h0 == [a \in DOMAIN heap |-> IF a = sb[b].value THEN heap[a] ELSE FreeBlock]
           out == [i \in 1..max_pieces |-> CHOOSE r \in RawStructs : r.size = 0]
           r == split(sb[b], Image(b), h0, out, max_pieces, separator)
       IN  /\ pieces' = SubSeq(r.pieces, 1, r.n)
           /\ heap' = r.heap
           /\ lastOp' = [op |-> "split", buf |-> b, arg |-> <<separator, max_pieces>>,
                         len0 |-> sb[b].length, alloc |-> "ok", ret |-> r.n]
           /\ UNCHANGED <<sb, phase, ub>>

NextSearch == IndexOf(1) \/ ContainsOp(1) \/ Split(1)

SpecSearch == InitSearch /\ [][NextSearch]_vars

\* ------------------------------------------------------------- the claims

\* What a reader of the buffer sees: its used bytes, or <<-1>> when the
\* struct does not describe bytes of a live block.
Text(s, h) ==
    IF s.value # NULL /\ s.value \in DOMAIN h /\ s.length \in 0..Len(h[s.value].mem)
    THEN SubSeq(h[s.value].mem, 1, s.length)
    ELSE <<-1>>

\* The byte at index length is inside the block and is 0.
TerminatorAt(s, h) ==
    /\ s.value # NULL
    /\ s.length \in 0..(Len(h[s.value].mem) - 1)
    /\ h[s.value].mem[s.length + 1] = 0

GrowingOps == {"set_size", "set_length", "append_char", "append_string", "concat",
               "repeat"}

BufferOps == GrowingOps \cup {"init", "init_size", "trim", "to_uppercase",
                              "to_lowercase", "replace_char"}

\* C1: after every public operation on a buffer returns, failed or not, the
\* buffer satisfies 0 <= length < capacity.  (Stated for a buffer whose
\* initialisation succeeded; a failed one is C10's.)
C1_LengthBelowCapacity ==
    (lastOp.op \in BufferOps /\ Ready(lastOp.buf)) =>
        LET s == sb[lastOp.buf]
        IN  0 <= s.length /\ s.length < s.size

\* C2: after every public operation on an initialised buffer, starting with
\* the initialize operation itself, the byte at index length is 0.
C2_TerminatorAtLength ==
    (lastOp.op \in BufferOps /\ Usable(lastOp.buf)) =>
        TerminatorAt(sb[lastOp.buf], heap)

\* C3: when the allocator refuses the (re)allocation of a mutating call, the
\* storage, length and capacity are what they were before the call, and the
\* returned code and the recorded status are the allocation failure.
C3_RefusalChangesNothing ==
    [][(lastOp'.op \in GrowingOps /\ lastOp'.alloc = "refused") =>
          LET b == lastOp'.buf
          IN  /\ heap' = heap
              /\ sb'[b].value = sb[b].value
              /\ sb'[b].length = sb[b].length
              /\ sb'[b].size = sb[b].size
              /\ lastOp'.ret = ERROR_MEM_ALLOC_FAILURE
              /\ sb'[b].error = ERROR_MEM_ALLOC_FAILURE]_vars

\* C3's case: an append to a buffer with content was refused its growth.
C3_Witness ==
    /\ lastOp.op = "append_string"
    /\ lastOp.alloc = "refused"
    /\ lastOp.len0 > 0
    /\ Len(lastOp.arg) > 0

\* C4: a mutator that completes successfully returns OK and leaves the status
\* OK, whatever status the call before it left.
C4_SuccessReportsOk ==
    (/\ lastOp.op \in {"append_char", "append_string", "set_length", "concat"}
     /\ lastOp.alloc \in {"none", "ok"}
     /\ ~ub) =>
        /\ lastOp.ret = ERROR_NONE
        /\ sb[lastOp.buf].error = ERROR_NONE

\* C7: after a successful copy(src, dest) the two are equal, with the same
\* length and bytes, and no later call on dest changes the content or the
\* length of src.  (Buffer 1 is src, buffer 2 is dest.)
C7_CopyIsDeep ==
    [][/\ (lastOp'.op = "copy" /\ lastOp'.ret = ERROR_NONE) =>
              /\ equals(sb'[1], sb'[2], heap')
              /\ sb'[2].length = sb'[1].length
              /\ Text(sb'[2], heap') = Text(sb'[1], heap')
       /\ (lastOp'.op # "copy") =>
              /\ Text(sb'[1], heap') = Text(sb[1], heap)
              /\ sb'[1].length = sb[1].length]_vars

\* C7's case: dest was copied from a two-byte src and then changed.
C7_Witness ==
    /\ lastOp.op = "replace_char"
    /\ lastOp.buf = 2
    /\ phase[2] = "ready"
    /\ sb[1].length = 2
    /\ sb[2].length = 2
    /\ Text(sb[2], heap) # Text(sb[1], heap)

\* `times` copies of text, one after the other.
Repeated(text, times) ==
    [i \in 1..(Len(text) * times) |-> text[((i - 1) % Len(text)) + 1]]

C9_SetSize ==
    [][(lastOp'.op = "set_size" /\ lastOp'.ret = ERROR_NONE) =>
          LET b == lastOp'.buf
              n == lastOp'.arg
              mem0 == heap[sb[b].value].mem
              mem1 == heap'[sb'[b].value].mem
          IN  /\ sb'[b].size = n
              /\ Len(mem1) = n
              /\ IF n <= sb[b].length
                 THEN /\ sb'[b].length = n - 1
                      /\ IF n >= 1
                         THEN /\ mem1[n] = 0
                              /\ SubSeq(mem1, 1, n - 1) = SubSeq(mem0, 1, n - 1)
                         ELSE ub'
                 ELSE /\ sb'[b].length = sb[b].length
                      /\ Text(sb'[b], heap') = Text(sb[b], heap)]_vars

\* C9's case: a set_size to 2 that succeeded on a content of three bytes and
\* cut it to its first byte.
C9_Witness ==
    /\ lastOp.op = "set_size"
    /\ lastOp.ret = ERROR_NONE
    /\ lastOp.arg = 2
    /\ lastOp.len0 = 3
    /\ sb[lastOp.buf].length = 1
    /\ Text(sb[lastOp.buf], heap) = <<97>>

\* C10: a failed initialize returns ALLOCATION_FAILURE and leaves capacity 0,
\* length 0 and no storage, whatever the struct held; finalize leaves no
\* storage, length 0, capacity 0 and status OK.
C10_FailedInitIsEmpty ==
    LET s == sb[lastOp.buf]
    IN  /\ (lastOp.op \in {"init", "init_size"} /\ lastOp.ret # ERROR_NONE) =>
              /\ lastOp.ret = ERROR_MEM_ALLOC_FAILURE
              /\ s.size = 0 /\ s.length = 0 /\ s.value = NULL
        /\ lastOp.op = "finalize" =>
              s = [value |-> NULL, length |-> 0, size |-> 0, error |-> ERROR_NONE]

\* The smallest offset at which needle occurs in text, or -1.
FirstOccurrence(text, needle) ==
    LET at == {i \in 0..(Len(text) - Len(needle)) :
                  SubSeq(text, i + 1, i + Len(needle)) = needle}
    IN  IF at = {} THEN -1 ELSE CHOOSE i \in at : \A j \in at : i <= j

\* C5: index_of returns the smallest offset at which the needle occurs in the
\* content (0 for the empty needle), and -1 exactly when it occurs nowhere;
\* contains is true exactly when index_of is not -1.
C5_IndexOfFindsFirst ==
    LET text == Text(sb[1], heap)
    IN  /\ lastOp.op = "index_of" => lastOp.ret = FirstOccurrence(text, lastOp.arg)
        /\ lastOp.op = "contains" =>
              lastOp.ret = (FirstOccurrence(text, lastOp.arg) # -1)

\* The pieces of the content image[start..end) where every search looks at
\* the rest of the content only; n pieces were cut before.
RECURSIVE ContentPieces(_, _, _, _, _, _)
ContentPieces(image, start, end, n, max_pieces, separator) ==
    LET found == internal_string_pos(image, start, end - start, separator)
    IN  IF found # NotFound /\ n + 1 < max_pieces
        THEN <<MemRead(image, start, found - start)>> \o
             ContentPieces(image, found + Len(separator), end, n + 1, max_pieces,
                           separator)
        ELSE <<MemRead(image, start, end - start)>>

\* C6: split of a non-empty buffer on a non-empty separator with
\* maxPieces > 0 produces the pieces between the separator occurrences found
\* left to right, each search starting right after the previous match and
\* never looking past the end of the content, the last piece being all the
\* remaining content; every piece has capacity = length + 1.  An empty buffer
\* or maxPieces <= 0 produces no piece.
C6_SplitPieces ==
    lastOp.op = "split" =>
        LET separator == lastOp.arg[1]
            max_pieces == lastOp.arg[2]
            s == sb[lastOp.buf]
        IN  /\ lastOp.ret = Len(pieces)
            /\ (s.length = 0 \/ max_pieces <= 0) => pieces = <<>>
            /\ (s.length > 0 /\ max_pieces > 0 /\ Len(separator) > 0) =>
                  /\ [i \in 1..Len(pieces) |-> Text(pieces[i], heap)] =
                        ContentPieces(Image(lastOp.buf), 0, s.length, 0, max_pieces,
                                      separator)
                  /\ \A i \in 1..Len(pieces) : pieces[i].size = pieces[i].length + 1

====
